---- MODULE Spec2Model ----
(***************************************************************************)
(* MemoryNest: the memory write path (create / update / delete), the       *)
(* vector index adapter and the retrieval orchestrator, as a state machine *)
(* over the Relational Store and the Vector Index.                         *)
(*                                                                         *)
(* Every handler is split at its awaits: one action per external call.     *)
(* Numbers that are fractions in the source are kept in hundredths         *)
(* (0.6 is 60); an embedding is a vector of integers in tenths, so that a  *)
(* squared L2 distance is an integer number of hundredths.                 *)
(***************************************************************************)
EXTENDS Integers, Sequences, FiniteSets, TLC

\* ---------------------------------------------------------------- bounds
MaxMem == 2
MaxWrites == 2
MaxFail == 1

\* ------------------------------------------------------------- constants
QueryThreshold == 60
DefaultLimit == 10

Procs == {1, 2}
Users == {"A", "B"}
Titles == {"t1"}
BaseTexts == {"x", "y", "z"}
Undef == "undefined"
MemIds == 1..MaxMem
Limits == {0, 1}

NoResultsExplanation == "No memories found matching your query."
FallbackExplanation == "Relevant memories found."
LLMExplanation == "llm explanation"

\* ------------------------------------------------------ external services
\* transcribeAudio + the template of the handlers: content, a blank line,
\* "Voice transcription: " and the transcription.
WithTranscription(t) == t \o "+voice"

Texts == BaseTexts \cup {WithTranscription("x")}

\* The embedding model: a pure function of the text.
EmbeddingOf(t) ==
  CASE t = "x" -> <<0>>
    [] t = "y" -> <<8>>
    [] t = "z" -> <<10>>
    [] t = "x+voice" -> <<2>>
    [] OTHER -> <<5>>

\* The summarization model: the summary it returns for a text.
SummaryOf(t) == "summary of " \o t

\* ------------------------------------------------------------------ state
VARIABLES store, index, nextId, req, conc, ops, fails, deleted, returned,
          snapStore, snapIndex,
          sumReq, moodStore, moodIndex,
          people, personNextId, memPeople, preq,
          nudges, nudgeNextId, nlast, gen

vars == <<store, index, nextId, req, conc, ops, fails, deleted, returned,
          snapStore, snapIndex, sumReq, moodStore, moodIndex,
          people, personNextId, memPeople, preq,
          nudges, nudgeNextId, nlast, gen>>

\* the memories table, the Vector Index and the requests on them
memVars == <<store, index, nextId, req, deleted, returned, snapStore, snapIndex>>

\* the mood column of the memories and of their index entries
moodVars == <<sumReq, moodStore, moodIndex>>

\* the people table and the people column of the memories
peopleVars == <<people, personNextId, memPeople, preq>>

\* the nudges table, the last answer of a nudge route and the nudge generation
nudgeVars == <<nudges, nudgeNextId, nlast, gen>>

aux == <<moodVars, peopleVars, nudgeVars>>

\* what a step that only moves its own request leaves alone
env == <<conc, ops, returned, snapStore, snapIndex, aux>>

NoRec == [id |-> 0, userId |-> Undef, title |-> Undef, content |-> Undef,
          summary |-> Undef, embedding |-> <<>>]
NoBody == [title |-> Undef, content |-> Undef, audio |-> FALSE, userId |-> Undef]

IdleReq ==
  [op |-> "none", pc |-> "idle", user |-> Undef, id |-> 0, body |-> NoBody,
   query |-> Undef,
   existing |-> NoRec, processedContent |-> Undef, summary |-> Undef,
   embedding |-> <<>>, limit |-> 0, similar |-> <<>>, memories |-> <<>>,
   explanation |-> Undef, confidence |-> 0, status |-> 0, calls |-> <<>>,
   failed |-> Undef]

\* An optional number (the mood of a payload or of a row) is the set of its
\* values: {} when the field is absent, {m} when it is m.
NoPayload == [content |-> "none", emotions |-> FALSE, mood |-> {}]

IdleSumReq ==
  [op |-> "none", pc |-> "idle", id |-> 0, payload |-> NoPayload,
   summarized |-> FALSE, mood |-> {}, status |-> 0, failed |-> Undef]

NoPersonBody == [name |-> Undef, userId |-> Undef]

IdlePersonReq ==
  [op |-> "none", pc |-> "idle", user |-> Undef, id |-> 0, name |-> Undef,
   body |-> NoPersonBody, status |-> 0]

\* the answer of a nudge route: none yet
NoAnswer == [op |-> "none", user |-> Undef, id |-> 0, status |-> 0, data |-> {}]

\* POST /ai/nudges: no request yet
IdleGen == [pc |-> "idle", thrown |-> FALSE, content |-> "none",
            hasNudges |-> FALSE, candidates |-> <<>>, status |-> 0, nudges |-> <<>>]

Init ==
  /\ store = <<>>
  /\ index = <<>>
  /\ nextId = 1
  /\ req = [p \in Procs |-> IdleReq]
  /\ conc = FALSE
  /\ ops = 0
  /\ fails = 0
  /\ deleted = {}
  /\ returned = {}
  /\ snapStore = <<>>
  /\ snapIndex = <<>>
  /\ sumReq = IdleSumReq
  /\ moodStore = <<>>
  /\ moodIndex = <<>>
  /\ people = <<>>
  /\ personNextId = 1
  /\ memPeople = <<>>
  /\ preq = [p \in Procs |-> IdlePersonReq]
  /\ nudges = <<>>
  /\ nudgeNextId = 1
  /\ nlast = NoAnswer
  /\ gen = IdleGen

\* ---------------------------------------------------------------- helpers
Range(s) == {s[i] : i \in DOMAIN s}

Put(f, k, v) == [i \in DOMAIN f \cup {k} |-> IF i = k THEN v ELSE f[i]]

Remove(f, k) == [i \in DOMAIN f \ {k} |-> f[i]]

\* JavaScript's a || b on the optional fields of a request body.
OrElse(a, b) == IF a # Undef THEN a ELSE b

\* A request may start when its slot is idle and, unless requests are
\* allowed to interleave, no other request is in flight.
CanStart(p) ==
  /\ req[p].pc = "idle"
  /\ conc \/ (p = 1)

\* ops counts the write requests (create, update, delete) accepted so far;
\* snapStore and snapIndex remember the stores as the request found them.
BeginWrite ==
  /\ ops < MaxWrites
  /\ ops' = ops + 1
  /\ snapStore' = store
  /\ snapIndex' = index

Step(p, r) == req' = [req EXCEPT ![p] = r]

Call(r, name) == [r EXCEPT !.calls = Append(@, name)]

\* An early return with an error status.
Reject(r, code) == [r EXCEPT !.pc = "done", !.status = code]

\* The external call just made threw: the handler's catch answers 500.
Throw(r) == [r EXCEPT !.pc = "done", !.status = 500, !.failed = r.calls[Len(r.calls)]]

\* An external call succeeds or throws; at most MaxFail calls throw in a run.
Outcomes == IF fails < MaxFail THEN {TRUE, FALSE} ELSE {TRUE}

Counted(ok) == fails' = IF ok THEN fails ELSE fails + 1

\* ------------------------------------------------ POST /memories (create)
CreateStart(p) ==
  /\ CanStart(p)
  /\ nextId <= MaxMem
  /\ \E u \in Users, t \in Titles, c \in BaseTexts, a \in BOOLEAN :
       /\ a => WithTranscription(c) \in Texts
       /\ Step(p, [IdleReq EXCEPT !.op = "create", !.user = u,
                     !.body = [title |-> t, content |-> c, audio |-> a, userId |-> Undef],
                     !.processedContent = c,
                     !.pc = IF a THEN "transcribe" ELSE "summarize"])
  /\ BeginWrite
  /\ UNCHANGED <<store, index, nextId, conc, fails, deleted, returned, aux>>

CreateTranscribe(p) ==
  /\ req[p].op = "create" /\ req[p].pc = "transcribe"
  /\ \E ok \in Outcomes :
       LET r == Call(req[p], "transcribe") IN
       /\ Counted(ok)
       /\ Step(p, IF ok
                  THEN [r EXCEPT !.processedContent = WithTranscription(r.body.content),
                                 !.pc = "summarize"]
                  ELSE Throw(r))
  /\ UNCHANGED <<store, index, nextId, deleted, env>>

CreateSummarize(p) ==
  /\ req[p].op = "create" /\ req[p].pc = "summarize"
  /\ \E ok \in Outcomes :
       LET r == Call(req[p], "summarize") IN
       /\ Counted(ok)
       /\ Step(p, IF ok
                  THEN [r EXCEPT !.summary = SummaryOf(r.processedContent), !.pc = "embed"]
                  ELSE Throw(r))
  /\ UNCHANGED <<store, index, nextId, deleted, env>>

\* CreateEmbed with the failure of the embedding call swallowed: an empty
\* vector stands in and the handler goes on to write.
CreateEmbedSwallowed(p) ==
  /\ req[p].op = "create" /\ req[p].pc = "embed"
  /\ \E ok \in Outcomes :
       LET r == Call(req[p], "embed") IN
       /\ Counted(ok)
       /\ Step(p, IF ok
                  THEN [r EXCEPT !.embedding = EmbeddingOf(r.processedContent), !.pc = "dbwrite"]
                  ELSE [r EXCEPT !.embedding = <<>>, !.failed = "embed", !.pc = "dbwrite"])
  /\ UNCHANGED <<store, index, nextId, deleted, env>>

CreateEmbed(p) ==
  /\ req[p].op = "create" /\ req[p].pc = "embed"
  /\ \E ok \in Outcomes :
       LET r == Call(req[p], "embed") IN
       /\ Counted(ok)
       /\ Step(p, IF ok
                  THEN [r EXCEPT !.embedding = EmbeddingOf(r.processedContent), !.pc = "dbwrite"]
                  ELSE Throw(r))
  /\ UNCHANGED <<store, index, nextId, deleted, env>>

\* memoryData and createRecord('memories', memoryData).  The fresh uuid is the
\* next unused id; an insert that fails leaves no trace of its uuid.
MemoryData(r, id) ==
  [id |-> id, userId |-> r.user, title |-> r.body.title,
   content |-> r.processedContent, summary |-> r.summary,
   embedding |-> r.embedding]

CreateRecordStep(p) ==
  /\ req[p].op = "create" /\ req[p].pc = "dbwrite"
  /\ \E ok \in Outcomes :
       LET r == Call(req[p], "db.insert") IN
       /\ Counted(ok)
       /\ IF ok
          THEN /\ store' = Put(store, nextId, MemoryData(r, nextId))
               /\ nextId' = nextId + 1
               /\ Step(p, [r EXCEPT !.id = nextId, !.pc = "indexwrite"])
          ELSE /\ Step(p, Throw(r))
               /\ UNCHANGED <<store, nextId>>
  /\ UNCHANGED <<index, deleted, env>>

\* The entry collection.add stores: embedding, document and the metadata bag.
IndexEntry(userId, content, summary, embedding, title) ==
  [userId |-> userId, text |-> content, summary |-> summary,
   embedding |-> embedding, title |-> title]

\* addMemoryEmbedding with the userId left out of the metadata.
addMemoryEmbeddingNoUser(memoryId, userId, content, summary, embedding, title) ==
  Put(index, memoryId, IndexEntry(Undef, content, summary, embedding, title))

\* addMemoryEmbedding: metadata is {userId, summary, type: 'memory', ...metadata}.
addMemoryEmbedding(memoryId, userId, content, summary, embedding, title) ==
  Put(index, memoryId, IndexEntry(userId, content, summary, embedding, title))

\* CreateAddEmbedding that takes the record back when the index add failed.
CreateAddEmbeddingCompensated(p) ==
  /\ req[p].op = "create" /\ req[p].pc = "indexwrite"
  /\ \E ok \in Outcomes :
       LET r == Call(req[p], "index.add") IN
       /\ Counted(ok)
       /\ IF ok
          THEN /\ index' = addMemoryEmbedding(r.id, r.user, r.processedContent,
                                              r.summary, r.embedding, r.body.title)
               /\ Step(p, [r EXCEPT !.pc = "done", !.status = 201])
               /\ UNCHANGED store
          ELSE /\ Step(p, Throw(r))
               /\ store' = Remove(store, r.id)
               /\ UNCHANGED index
  /\ UNCHANGED <<nextId, deleted, env>>

CreateAddEmbedding(p) ==
  /\ req[p].op = "create" /\ req[p].pc = "indexwrite"
  /\ \E ok \in Outcomes :
       LET r == Call(req[p], "index.add") IN
       /\ Counted(ok)
       /\ IF ok
          THEN /\ index' = addMemoryEmbedding(r.id, r.user, r.processedContent,
                                              r.summary, r.embedding, r.body.title)
               /\ Step(p, [r EXCEPT !.pc = "done", !.status = 201])
          ELSE /\ Step(p, Throw(r))
               /\ UNCHANGED index
  /\ UNCHANGED <<store, nextId, deleted, env>>

\* --------------------------------------------- PUT /memories/:id (update)
Bodies ==
  [title : Titles \cup {Undef}, content : BaseTexts \cup {Undef},
   audio : BOOLEAN, userId : Users \cup {Undef}]

\* The text the handler will transcribe onto: updateData.content || existingMemory.content.
BaseContent(b, id) ==
  IF b.content # Undef THEN b.content
  ELSE IF id \in DOMAIN store THEN store[id].content ELSE Undef

\* The request arrives and the handler runs to its first await and past it:
\* getRecordById, the 404 and 403 checks, and the locals set before the next
\* external call.
UpdateGet(p) ==
  /\ CanStart(p)
  /\ \E u \in Users, id \in MemIds, b \in Bodies, ok \in Outcomes :
       LET r == Call([IdleReq EXCEPT !.op = "update", !.user = u, !.id = id,
                                     !.body = b], "db.get") IN
       /\ b.audio => WithTranscription(BaseContent(b, id)) \in Texts
       /\ Counted(ok)
       /\ req' = [req EXCEPT ![p] =
            IF ~ok THEN Throw(r)
            ELSE IF r.id \notin DOMAIN store THEN Reject(r, 404)
            ELSE IF store[r.id].userId # r.user THEN Reject(r, 403)
            ELSE LET existing == store[r.id] IN
                 [r EXCEPT !.existing = existing,
                           !.processedContent = OrElse(r.body.content, existing.content),
                           !.summary = existing.summary,
                           !.embedding = existing.embedding,
                           !.pc = IF r.body.audio THEN "transcribe"
                                  ELSE IF r.body.content # Undef THEN "summarize"
                                  ELSE "dbwrite"]]
  /\ BeginWrite
  /\ UNCHANGED <<store, index, nextId, deleted, returned, conc, aux>>

UpdateTranscribe(p) ==
  /\ req[p].op = "update" /\ req[p].pc = "transcribe"
  /\ WithTranscription(OrElse(req[p].body.content, req[p].existing.content)) \in Texts
  /\ \E ok \in Outcomes :
       LET r == Call(req[p], "transcribe") IN
       /\ Counted(ok)
       /\ Step(p, IF ok
                  THEN [r EXCEPT !.processedContent =
                                    WithTranscription(OrElse(r.body.content, r.existing.content)),
                                 !.pc = "summarize"]
                  ELSE Throw(r))
  /\ UNCHANGED <<store, index, nextId, deleted, env>>

UpdateSummarize(p) ==
  /\ req[p].op = "update" /\ req[p].pc = "summarize"
  /\ \E ok \in Outcomes :
       LET r == Call(req[p], "summarize") IN
       /\ Counted(ok)
       /\ Step(p, IF ok
                  THEN [r EXCEPT !.summary = SummaryOf(r.processedContent), !.pc = "embed"]
                  ELSE Throw(r))
  /\ UNCHANGED <<store, index, nextId, deleted, env>>

UpdateEmbed(p) ==
  /\ req[p].op = "update" /\ req[p].pc = "embed"
  /\ \E ok \in Outcomes :
       LET r == Call(req[p], "embed") IN
       /\ Counted(ok)
       /\ Step(p, IF ok
                  THEN [r EXCEPT !.embedding = EmbeddingOf(r.processedContent), !.pc = "dbwrite"]
                  ELSE Throw(r))
  /\ UNCHANGED <<store, index, nextId, deleted, env>>

\* UpdatedRow with the embedding column left as it was.
UpdatedRowStaleEmbedding(row, r) ==
  [row EXCEPT !.title = OrElse(r.body.title, @),
              !.userId = OrElse(r.body.userId, @),
              !.content = r.processedContent,
              !.summary = r.summary]

\* The row after updateRecord('memories', id, {...updateData, content, summary,
\* ..., embedding}): the columns the object names are overwritten, the rest kept.
UpdatedRow(row, r) ==
  [row EXCEPT !.title = OrElse(r.body.title, @),
              !.userId = OrElse(r.body.userId, @),
              !.content = r.processedContent,
              !.summary = r.summary,
              !.embedding = r.embedding]

\* updateRecord ends in .single(): no row with this id is an error.
UpdateRecordStep(p) ==
  /\ req[p].op = "update" /\ req[p].pc = "dbwrite"
  /\ \E ok \in Outcomes :
       LET r == Call(req[p], "db.update") IN
       /\ Counted(ok)
       /\ IF ok /\ r.id \in DOMAIN store
          THEN /\ store' = Put(store, r.id, UpdatedRow(store[r.id], r))
               /\ Step(p, [r EXCEPT !.pc = "indexdelete"])
          ELSE /\ Step(p, Throw(r))
               /\ UNCHANGED store
  /\ UNCHANGED <<index, nextId, deleted, env>>

\* UpdateVectorDelete that leaves the old entry in place.
UpdateVectorDeleteKept(p) ==
  /\ req[p].op = "update" /\ req[p].pc = "indexdelete"
  /\ \E ok \in Outcomes :
       LET r == Call(req[p], "index.delete") IN
       /\ Counted(ok)
       /\ Step(p, IF ok THEN [r EXCEPT !.pc = "indexwrite"] ELSE Throw(r))
       /\ UNCHANGED index
  /\ UNCHANGED <<store, nextId, deleted, env>>

\* updateMemoryEmbedding, first half: collection.delete({ids: [memoryId]}).
UpdateVectorDelete(p) ==
  /\ req[p].op = "update" /\ req[p].pc = "indexdelete"
  /\ \E ok \in Outcomes :
       LET r == Call(req[p], "index.delete") IN
       /\ Counted(ok)
       /\ IF ok
          THEN /\ index' = Remove(index, r.id)
               /\ Step(p, [r EXCEPT !.pc = "indexwrite"])
          ELSE /\ Step(p, Throw(r))
               /\ UNCHANGED index
  /\ UNCHANGED <<store, nextId, deleted, env>>

\* updateMemoryEmbedding, second half: collection.add with metadata
\* {summary, type: 'memory', ...metadata}; the function takes no userId.
updateMemoryEmbedding(memoryId, content, summary, embedding, title) ==
  Put(index, memoryId, IndexEntry(Undef, content, summary, embedding, title))

\* collection.add of an id the collection already holds does not replace the
\* entry: the client either rejects the call or ignores the duplicate.
UpdateVectorAdd(p) ==
  /\ req[p].op = "update" /\ req[p].pc = "indexwrite"
  /\ \E ok \in Outcomes :
       LET r == Call(req[p], "index.add") IN
       /\ Counted(ok)
       /\ IF ok /\ r.id \notin DOMAIN index
          THEN /\ index' = updateMemoryEmbedding(r.id, r.processedContent, r.summary,
                                                 r.embedding,
                                                 OrElse(r.body.title, r.existing.title))
               /\ Step(p, [r EXCEPT !.pc = "done", !.status = 200])
          ELSE /\ \E ignored \in (IF ok THEN BOOLEAN ELSE {FALSE}) :
                    Step(p, IF ignored THEN [r EXCEPT !.pc = "done", !.status = 200]
                            ELSE Throw(r))
               /\ UNCHANGED index
  /\ UNCHANGED <<store, nextId, deleted, env>>

\* ------------------------------------------ DELETE /memories/:id (delete)
\* DeleteGet without the 403 check.
DeleteGetNoOwnerCheck(p) ==
  /\ CanStart(p)
  /\ \E u \in Users, id \in MemIds, ok \in Outcomes :
       LET r == Call([IdleReq EXCEPT !.op = "delete", !.user = u, !.id = id], "db.get") IN
       /\ Counted(ok)
       /\ req' = [req EXCEPT ![p] =
            IF ~ok THEN Throw(r)
            ELSE IF r.id \notin DOMAIN store THEN Reject(r, 404)
            ELSE [r EXCEPT !.existing = store[r.id], !.pc = "dbwrite"]]
  /\ BeginWrite
  /\ UNCHANGED <<store, index, nextId, deleted, returned, conc, aux>>

DeleteGet(p) ==
  /\ CanStart(p)
  /\ \E u \in Users, id \in MemIds, ok \in Outcomes :
       LET r == Call([IdleReq EXCEPT !.op = "delete", !.user = u, !.id = id], "db.get") IN
       /\ Counted(ok)
       /\ req' = [req EXCEPT ![p] =
            IF ~ok THEN Throw(r)
            ELSE IF r.id \notin DOMAIN store THEN Reject(r, 404)
            ELSE IF store[r.id].userId # r.user THEN Reject(r, 403)
            ELSE [r EXCEPT !.existing = store[r.id], !.pc = "dbwrite"]]
  /\ BeginWrite
  /\ UNCHANGED <<store, index, nextId, deleted, returned, conc, aux>>

\* deleteRecord('memories', id): delete ... where id = id.
DeleteRecordStep(p) ==
  /\ req[p].op = "delete" /\ req[p].pc = "dbwrite"
  /\ \E ok \in Outcomes :
       LET r == Call(req[p], "db.delete") IN
       /\ Counted(ok)
       /\ IF ok
          THEN /\ store' = Remove(store, r.id)
               /\ Step(p, [r EXCEPT !.pc = "indexdelete"])
          ELSE /\ Step(p, Throw(r))
               /\ UNCHANGED store
  /\ UNCHANGED <<index, nextId, deleted, env>>

\* deleteMemoryEmbedding that leaves the collection as it is.
deleteMemoryEmbeddingKept(memoryId) == index

\* deleteMemoryEmbedding that empties the collection when the id is not in it.
deleteMemoryEmbeddingOrAll(memoryId) ==
  IF memoryId \in DOMAIN index THEN Remove(index, memoryId) ELSE <<>>

\* deleteMemoryEmbedding: collection.delete({ids: [memoryId]}).
deleteMemoryEmbedding(memoryId) == Remove(index, memoryId)

\* deleted remembers the ids whose delete request answered 200.
DeleteVector(p) ==
  /\ req[p].op = "delete" /\ req[p].pc = "indexdelete"
  /\ \E ok \in Outcomes :
       LET r == Call(req[p], "index.delete") IN
       /\ Counted(ok)
       /\ IF ok
          THEN /\ index' = deleteMemoryEmbedding(r.id)
               /\ deleted' = deleted \cup {r.id}
               /\ Step(p, [r EXCEPT !.pc = "done", !.status = 200])
          ELSE /\ Step(p, Throw(r))
               /\ UNCHANGED <<index, deleted>>
  /\ UNCHANGED <<store, nextId, env>>

\* --------------------------------------------------- the Vector Index query
RECURSIVE SumSq(_, _, _)
SumSq(a, b, i) ==
  IF i > Len(a) THEN 0 ELSE (a[i] - b[i]) * (a[i] - b[i]) + SumSq(a, b, i + 1)

\* The collection's distance (its default space, squared L2), in hundredths.
Distance(a, b) == SumSq(a, b, 1)

\* Min that ignores the cap.
TakeAll(a, b) == b

Min(a, b) == IF a < b THEN a ELSE b

Perms(S) ==
  {s \in [1..Cardinality(S) -> S] : \A i, j \in 1..Cardinality(S) : i # j => s[i] # s[j]}

\* collection.query({queryEmbeddings, nResults, where: {userId, type: 'memory'}}):
\* the nResults nearest of the entries whose metadata match, nearest first;
\* the order among entries at the same distance is the collection's choice.
\* Every entry is written with type 'memory', so the filter is on userId.
\* Matches with the where clause dropped.
MatchesAnyUser(entry, userId) == TRUE

Matches(entry, userId) == entry.userId = userId

QueryIds(queryEmbedding, userId, nResults) ==
  LET match == {id \in DOMAIN index : Matches(index[id], userId)}
      d(id) == Distance(queryEmbedding, index[id].embedding)
      k == Min(nResults, Cardinality(match))
  IN {s \in UNION {Perms(T) : T \in {U \in SUBSET match : Cardinality(U) = k}} :
        /\ \A i, j \in 1..k : i < j => d(s[i]) <= d(s[j])
        /\ \A id \in match \ Range(s) : \A i \in 1..k : d(s[i]) <= d(id)}

\* results.distances?.[0]?.[index] || 0
OrZero(x) == IF x = 0 THEN 0 ELSE x

\* searchMemoriesBySimilarity: the rows mapped from the query result, then
\* memories.filter(memory => memory.similarity >= threshold).
SimilarityOf(queryEmbedding, id) == OrZero(Distance(queryEmbedding, index[id].embedding))

Keeps(similarity, threshold) == similarity >= threshold

searchMemoriesBySimilarity(queryEmbedding, userId, limit, threshold) ==
  LET row(id) == [memoryId |-> id,
                  similarity |-> SimilarityOf(queryEmbedding, id),
                  content |-> index[id].text,
                  summary |-> index[id].summary,
                  userId |-> index[id].userId]
      keep(m) == Keeps(m.similarity, threshold)
  IN {SelectSeq([i \in DOMAIN s |-> row(s[i])], keep) :
        s \in QueryIds(queryEmbedding, userId, limit)}

\* ------------------------------------- POST /ai/query (processMemoryQuery)
\* request.limit || 10
EffectiveLimit(limit) == IF limit = 0 THEN DefaultLimit ELSE limit

QueryEmbed(p) ==
  /\ CanStart(p)
  /\ \E u \in Users, q \in BaseTexts, l \in Limits, ok \in Outcomes :
       LET r == Call([IdleReq EXCEPT !.op = "query", !.user = u, !.query = q,
                                     !.limit = l], "embed") IN
       /\ Counted(ok)
       /\ req' = [req EXCEPT ![p] =
            IF ok THEN [r EXCEPT !.embedding = EmbeddingOf(q), !.pc = "search"]
            ELSE Throw(r)]
  /\ UNCHANGED <<store, index, nextId, deleted, env>>

\* AfterSearch without the early return on an empty result.
AfterSearchNoEarlyReturn(r, similarMemories) ==
  [r EXCEPT !.similar = similarMemories, !.pc = "hydrate"]

\* What the search stage leaves in the request: the empty response, or the
\* similar memories to hydrate.
AfterSearch(r, similarMemories) ==
  IF Len(similarMemories) = 0
  THEN [r EXCEPT !.memories = <<>>, !.explanation = NoResultsExplanation,
                 !.confidence = 0, !.pc = "done", !.status = 200]
  ELSE [r EXCEPT !.similar = similarMemories, !.pc = "hydrate"]

\* QuerySearch whose failed search is answered as an empty result.
QuerySearchSwallowed(p) ==
  /\ req[p].op = "query" /\ req[p].pc = "search"
  /\ \E ok \in Outcomes :
       LET r == Call(req[p], "search") IN
       /\ Counted(ok)
       /\ IF ok
          THEN \E similarMemories \in
                   searchMemoriesBySimilarity(r.embedding, r.user,
                                              EffectiveLimit(r.limit), QueryThreshold) :
                 Step(p, AfterSearch(r, similarMemories))
          ELSE Step(p, AfterSearch([r EXCEPT !.failed = "search"], <<>>))
  /\ UNCHANGED <<store, index, nextId, deleted, env>>

QuerySearch(p) ==
  /\ req[p].op = "query" /\ req[p].pc = "search"
  /\ \E ok \in Outcomes :
       LET r == Call(req[p], "search") IN
       /\ Counted(ok)
       /\ IF ok
          THEN \E similarMemories \in
                   searchMemoriesBySimilarity(r.embedding, r.user,
                                              EffectiveLimit(r.limit), QueryThreshold) :
                 Step(p, AfterSearch(r, similarMemories))
          ELSE Step(p, Throw(r))
  /\ UNCHANGED <<store, index, nextId, deleted, env>>

\* Hydrated without the userId condition of the select.
HydratedAnyOwner(memoryIds, userId) ==
  Perms({store[id] : id \in Range(memoryIds) \cap DOMAIN store})

\* select * from memories where id in (memoryIds) and userId = request.userId:
\* the rows come back in the order the database chooses.
Hydrated(memoryIds, userId) ==
  Perms({store[id] : id \in {i \in Range(memoryIds) \cap DOMAIN store :
                               store[i].userId = userId}})

QueryHydrate(p) ==
  /\ req[p].op = "query" /\ req[p].pc = "hydrate"
  /\ \E ok \in Outcomes :
       LET r == Call(req[p], "hydrate") IN
       /\ Counted(ok)
       /\ IF ok
          THEN \E memories \in
                   Hydrated([i \in DOMAIN r.similar |-> r.similar[i].memoryId], r.user) :
                 Step(p, [r EXCEPT !.memories = memories, !.pc = "explain"])
          ELSE Step(p, Throw(r))
  /\ UNCHANGED <<store, index, nextId, deleted, env>>

\* The chat completion and the returned object; a throw of the completion call
\* reaches the catch of processMemoryQuery, which rethrows.
QueryExplain(p) ==
  /\ req[p].op = "query" /\ req[p].pc = "explain"
  /\ \E ok \in Outcomes :
       LET r == Call(req[p], "explain") IN
       /\ Counted(ok)
       /\ IF ok
          THEN /\ \E text \in {LLMExplanation, Undef} :
                    Step(p, [r EXCEPT !.explanation = OrElse(text, FallbackExplanation),
                                      !.confidence = OrZero(r.similar[1].similarity),
                                      !.pc = "done", !.status = 200])
               /\ returned' = returned \cup {r.memories[i].id : i \in DOMAIN r.memories}
          ELSE /\ Step(p, Throw(r))
               /\ UNCHANGED returned
  /\ UNCHANGED <<store, index, nextId, deleted, conc, ops, snapStore, snapIndex, aux>>

\* The text of the error a failed stage of processMemoryQuery throws.
UpstreamText(stage) ==
  CASE stage = "embed" -> "Failed to generate embedding"
    [] stage = "search" -> "Failed to search memories"
    [] stage = "hydrate" -> "Failed to fetch memories"
    [] OTHER -> "completion error"

\* The catch of processMemoryQuery wraps whatever was thrown.
ThrownMessage(stage) == "Failed to process query: " \o UpstreamText(stage)

\* The catch of POST /ai/query logs the error and answers with a fixed text.
RouteError(message) == "Failed to process query"

\* The response has been sent; the slot is free again.
Finish(p) ==
  /\ req[p].pc = "done"
  /\ Step(p, IdleReq)
  /\ snapStore' = <<>>
  /\ snapIndex' = <<>>
  /\ UNCHANGED <<store, index, nextId, deleted, returned, conc, ops, fails, aux>>

Next ==
  \E p \in Procs :
    \/ CreateStart(p)
    \/ CreateTranscribe(p)
    \/ CreateSummarize(p)
    \/ CreateEmbed(p)
    \/ CreateRecordStep(p)
    \/ CreateAddEmbedding(p)
    \/ UpdateGet(p)
    \/ UpdateTranscribe(p)
    \/ UpdateSummarize(p)
    \/ UpdateEmbed(p)
    \/ UpdateRecordStep(p)
    \/ UpdateVectorDelete(p)
    \/ UpdateVectorAdd(p)
    \/ DeleteGet(p)
    \/ DeleteRecordStep(p)
    \/ DeleteVector(p)
    \/ QueryEmbed(p)
    \/ QuerySearch(p)
    \/ QueryHydrate(p)
    \/ QueryExplain(p)
    \/ Finish(p)

Spec == Init /\ [][Next]_vars

\* -------------------------------------- interleaved updates of one Memory
\* The other tables as Init leaves them.
AuxInit ==
  /\ sumReq = IdleSumReq
  /\ moodStore = <<>>
  /\ moodIndex = <<>>
  /\ people = <<>>
  /\ personNextId = 1
  /\ memPeople = <<>>
  /\ preq = [p \in Procs |-> IdlePersonReq]
  /\ nudges = <<>>
  /\ nudgeNextId = 1
  /\ nlast = NoAnswer
  /\ gen = IdleGen

\* The state a successful POST /memories {title: 't1', content: 'x'} of user
\* A leaves.
Loaded ==
  /\ store = Put(<<>>, 1, [id |-> 1, userId |-> "A", title |-> "t1", content |-> "x",
                           summary |-> SummaryOf("x"), embedding |-> EmbeddingOf("x")])
  /\ index = Put(<<>>, 1, IndexEntry("A", "x", SummaryOf("x"), EmbeddingOf("x"), "t1"))
  /\ nextId = 2
  /\ req = [p \in Procs |-> IdleReq]
  /\ ops = 0
  /\ fails = 0
  /\ deleted = {}
  /\ returned = {}
  /\ snapStore = <<>>
  /\ snapIndex = <<>>
  /\ AuxInit

\* Express serves the next request while a handler waits at an await.
InitUpdates == Loaded /\ conc = TRUE

\* One request at a time.
InitReplace == Loaded /\ conc = FALSE

NextUpdates ==
  \E p \in Procs :
    \/ UpdateGet(p)
    \/ UpdateTranscribe(p)
    \/ UpdateSummarize(p)
    \/ UpdateEmbed(p)
    \/ UpdateRecordStep(p)
    \/ UpdateVectorDelete(p)
    \/ UpdateVectorAdd(p)
    \/ Finish(p)

SpecUpdates == InitUpdates /\ [][NextUpdates]_vars

SpecReplace == InitReplace /\ [][NextUpdates]_vars

\* ------------------------------------ the mood of a Memory on the write path
MaxMoodMem == 2

SampleMoods == {0, 1, 10, 11}

MoodFields == {{}} \cup {{m} : m \in SampleMoods}

\* What the chat completion of summarizeMemory can answer: no content, content
\* that is not JSON, or a JSON object with or without emotions and mood.
Payloads == [content : {"json", "none", "garbage"}, emotions : BOOLEAN,
             mood : MoodFields]

\* summarizeMemory: throws without content, on JSON.parse, and on
\* result.emotions.primary when emotions is missing; otherwise returns
\* mood: result.mood as it came.
summarizeMemory(payload) ==
  IF payload.content # "json" \/ ~payload.emotions
  THEN [ok |-> FALSE, mood |-> {}]
  ELSE [ok |-> TRUE, mood |-> payload.mood]

\* mood INTEGER NOT NULL CHECK (mood >= 1 AND mood <= 10)
MoodCheck(mood) == mood # {} /\ \A m \in mood : m \in 1..10

\* POST /memories arrives.
MoodCreateStart ==
  /\ sumReq.pc = "idle"
  /\ Len(moodStore) < MaxMoodMem
  /\ sumReq' = [IdleSumReq EXCEPT !.op = "create", !.id = Len(moodStore) + 1,
                                  !.pc = "summarize"]
  /\ UNCHANGED <<moodStore, moodIndex, memVars, peopleVars, conc, ops, fails, nudgeVars>>

\* PUT /memories/:id arrives for an existing Memory of the caller; mood starts
\* as existingMemory.mood and the summary is regenerated when the body has
\* content or audio.
MoodUpdateStart ==
  /\ sumReq.pc = "idle"
  /\ \E id \in DOMAIN moodStore, regenerate \in BOOLEAN :
       sumReq' = [IdleSumReq EXCEPT !.op = "update", !.id = id,
                                   !.mood = moodStore[id],
                                   !.pc = IF regenerate THEN "summarize" ELSE "dbwrite"]
  /\ UNCHANGED <<moodStore, moodIndex, memVars, peopleVars, conc, ops, fails, nudgeVars>>

\* await summarizeMemory(...); mood = aiSummary.mood.
MoodSummarize ==
  /\ sumReq.pc = "summarize"
  /\ \E payload \in Payloads :
       LET aiSummary == summarizeMemory(payload)
           r == [sumReq EXCEPT !.payload = payload, !.summarized = TRUE] IN
       sumReq' = IF aiSummary.ok
                 THEN [r EXCEPT !.mood = aiSummary.mood, !.pc = "dbwrite"]
                 ELSE [r EXCEPT !.pc = "done", !.status = 500, !.failed = "summarize"]
  /\ UNCHANGED <<moodStore, moodIndex, memVars, peopleVars, conc, ops, fails, nudgeVars>>

\* createRecord / updateRecord with the mood: the row is written when the
\* column's constraint accepts it, otherwise the database error is thrown.
MoodRecordStep ==
  /\ sumReq.pc = "dbwrite"
  /\ IF MoodCheck(sumReq.mood)
     THEN /\ moodStore' = IF sumReq.op = "create"
                          THEN Append(moodStore, sumReq.mood)
                          ELSE [moodStore EXCEPT ![sumReq.id] = sumReq.mood]
          /\ sumReq' = [sumReq EXCEPT !.pc = "index"]
     ELSE /\ sumReq' = [sumReq EXCEPT !.pc = "done", !.status = 500, !.failed = "db"]
          /\ UNCHANGED moodStore
  /\ UNCHANGED <<moodIndex, memVars, peopleVars, conc, ops, fails, nudgeVars>>

\* addMemoryEmbedding / updateMemoryEmbedding with metadata.mood.
MoodIndexStep ==
  /\ sumReq.pc = "index"
  /\ moodIndex' = Put(moodIndex, sumReq.id, sumReq.mood)
  /\ sumReq' = [sumReq EXCEPT !.pc = "done",
                              !.status = IF sumReq.op = "create" THEN 201 ELSE 200]
  /\ UNCHANGED <<moodStore, memVars, peopleVars, conc, ops, fails, nudgeVars>>

MoodFinish ==
  /\ sumReq.pc = "done"
  /\ sumReq' = IdleSumReq
  /\ UNCHANGED <<moodStore, moodIndex, memVars, peopleVars, conc, ops, fails, nudgeVars>>

NextMood ==
  \/ MoodCreateStart
  \/ MoodUpdateStart
  \/ MoodSummarize
  \/ MoodRecordStep
  \/ MoodIndexStep
  \/ MoodFinish

SpecMood == Init /\ [][NextMood]_vars

\* --------------------------------------------------------- /people routes
MaxPeople == 2

MaxRefMem == 1

MaxPersonOps == 3

Names == {"Bob", "bob", "Al"}

PersonIds == 1..MaxPeople

\* String.prototype.toLowerCase on the names in use.
LowerCase(n) ==
  CASE n = "Bob" -> "bob"
    [] n = "Al" -> "al"
    [] OTHER -> n

\* The body of PUT /people/:id as the handler reads it: the validators strip
\* no field.
PersonBodies == [name : Names \cup {Undef}, userId : Users \cup {Undef}]

\* The people arrays a memory can carry: the handler takes body.people as is.
PeopleLists ==
  {<<>>} \cup {<<a>> : a \in PersonIds}
         \cup {ab \in PersonIds \X PersonIds : ab[1] # ab[2]}

CanStartPerson(p) ==
  /\ preq[p].pc = "idle"
  /\ conc \/ (p = 1)

BeginPersonOp ==
  /\ ops < MaxPersonOps
  /\ ops' = ops + 1

PersonStep(p, r) == preq' = [preq EXCEPT ![p] = r]

PersonReject(r, code) == [r EXCEPT !.pc = "done", !.status = code]

\* listRecords('people', {userId}).
ListPeople(userId) ==
  {people[i] : i \in {j \in DOMAIN people : people[j].userId = userId}}

\* UNIQUE(user_id, name) of the people table: another row of the user has
\* exactly this name.
NameTaken(row) ==
  \E j \in DOMAIN people \ {row.id} :
    people[j].userId = row.userId /\ people[j].name = row.name

\* POST /people up to the 409 check: listRecords and the search of a name
\* equal ignoring case.
PersonCreateList(p) ==
  /\ CanStartPerson(p)
  /\ personNextId <= MaxPeople
  /\ BeginPersonOp
  /\ \E u \in Users, name \in Names, ok \in Outcomes :
       LET r == [IdlePersonReq EXCEPT !.op = "create", !.user = u, !.name = name] IN
       /\ Counted(ok)
       /\ PersonStep(p,
            IF ~ok THEN PersonReject(r, 500)
            ELSE IF \E q \in ListPeople(u) : LowerCase(q.name) = LowerCase(name)
                 THEN PersonReject(r, 409)
                 ELSE [r EXCEPT !.pc = "insert"])
  /\ UNCHANGED <<people, personNextId, memPeople, memVars, moodVars, conc, nudgeVars>>

\* createRecord('people', personData).
PersonCreateInsert(p) ==
  /\ preq[p].op = "create" /\ preq[p].pc = "insert"
  /\ personNextId <= MaxPeople
  /\ \E ok \in Outcomes :
       LET r == preq[p]
           personData == [id |-> personNextId, userId |-> r.user, name |-> r.name] IN
       /\ Counted(ok)
       /\ IF ok /\ ~NameTaken(personData)
          THEN /\ people' = Put(people, personData.id, personData)
               /\ personNextId' = personNextId + 1
               /\ PersonStep(p, [r EXCEPT !.id = personData.id, !.pc = "done",
                                          !.status = 201])
          ELSE /\ PersonStep(p, PersonReject(r, 500))
               /\ UNCHANGED <<people, personNextId>>
  /\ UNCHANGED <<memPeople, memVars, moodVars, conc, ops, nudgeVars>>

\* PUT /people/:id up to the name check: getRecordById, 404, 403, and whether
\* the body renames the person.
PersonUpdateGet(p) ==
  /\ CanStartPerson(p)
  /\ BeginPersonOp
  /\ \E u \in Users, id \in PersonIds, b \in PersonBodies, ok \in Outcomes :
       LET r == [IdlePersonReq EXCEPT !.op = "update", !.user = u, !.id = id,
                                      !.body = b] IN
       /\ Counted(ok)
       /\ PersonStep(p,
            IF ~ok THEN PersonReject(r, 500)
            ELSE IF id \notin DOMAIN people THEN PersonReject(r, 404)
            ELSE IF people[id].userId # u THEN PersonReject(r, 403)
            ELSE IF b.name # Undef /\ b.name # people[id].name
                 THEN [r EXCEPT !.pc = "list"]
                 ELSE [r EXCEPT !.pc = "dbwrite"])
  /\ UNCHANGED <<people, personNextId, memPeople, memVars, moodVars, conc, nudgeVars>>

\* listRecords('people', {userId: req.user.id}) and the search of another
\* person with the new name, ignoring case.
PersonUpdateList(p) ==
  /\ preq[p].op = "update" /\ preq[p].pc = "list"
  /\ \E ok \in Outcomes :
       LET r == preq[p] IN
       /\ Counted(ok)
       /\ PersonStep(p,
            IF ~ok THEN PersonReject(r, 500)
            ELSE IF \E q \in ListPeople(r.user) :
                      q.id # r.id /\ LowerCase(q.name) = LowerCase(r.body.name)
                 THEN PersonReject(r, 409)
                 ELSE [r EXCEPT !.pc = "dbwrite"])
  /\ UNCHANGED <<people, personNextId, memPeople, memVars, moodVars, conc, ops, nudgeVars>>

\* The row after update people set {...updateData, updatedAt} where id = id.
UpdatedPerson(row, body) ==
  [row EXCEPT !.name = OrElse(body.name, @), !.userId = OrElse(body.userId, @)]

\* updateRecord('people', id, {...updateData, updatedAt}): no row, or a row
\* that breaks the unique constraint, is a database error.
PersonUpdateWrite(p) ==
  /\ preq[p].op = "update" /\ preq[p].pc = "dbwrite"
  /\ \E ok \in Outcomes :
       LET r == preq[p] IN
       /\ Counted(ok)
       /\ IF ok /\ r.id \in DOMAIN people
             /\ ~NameTaken(UpdatedPerson(people[r.id], r.body))
          THEN /\ people' = [people EXCEPT ![r.id] = UpdatedPerson(@, r.body)]
               /\ PersonStep(p, [r EXCEPT !.pc = "done", !.status = 200])
          ELSE /\ PersonStep(p, PersonReject(r, 500))
               /\ UNCHANGED people
  /\ UNCHANGED <<personNextId, memPeople, memVars, moodVars, conc, ops, nudgeVars>>

\* DELETE /people/:id up to the count: getRecordById, 404, 403.
PersonDeleteGet(p) ==
  /\ CanStartPerson(p)
  /\ BeginPersonOp
  /\ \E u \in Users, id \in PersonIds, ok \in Outcomes :
       LET r == [IdlePersonReq EXCEPT !.op = "delete", !.user = u, !.id = id] IN
       /\ Counted(ok)
       /\ PersonStep(p,
            IF ~ok THEN PersonReject(r, 500)
            ELSE IF id \notin DOMAIN people THEN PersonReject(r, 404)
            ELSE IF people[id].userId # u THEN PersonReject(r, 403)
            ELSE [r EXCEPT !.pc = "count"])
  /\ UNCHANGED <<people, personNextId, memPeople, memVars, moodVars, conc, nudgeVars>>

\* countRecords('memories', {userId, people: [id]}): each filter is
\* query.eq(key, value), so the people column is compared as a whole with
\* the one-element array.
CountMemoriesOf(userId, id) ==
  Cardinality({m \in DOMAIN memPeople :
                 memPeople[m].userId = userId /\ memPeople[m].people = <<id>>})

\* The count and the guard on it. Whether the database accepts an array as
\* the operand of eq is left to the client library and the server: it
\* compares, or it answers with an error.
PersonDeleteCount(p) ==
  /\ preq[p].op = "delete" /\ preq[p].pc = "count"
  /\ \E ok \in Outcomes, accepted \in BOOLEAN :
       LET r == preq[p] IN
       /\ Counted(ok)
       /\ PersonStep(p,
            IF ~ok \/ ~accepted THEN PersonReject(r, 500)
            ELSE IF CountMemoriesOf(r.user, r.id) > 0 THEN PersonReject(r, 400)
            ELSE [r EXCEPT !.pc = "dbwrite"])
  /\ UNCHANGED <<people, personNextId, memPeople, memVars, moodVars, conc, ops, nudgeVars>>

\* deleteRecord('people', id).
PersonDeleteWrite(p) ==
  /\ preq[p].op = "delete" /\ preq[p].pc = "dbwrite"
  /\ \E ok \in Outcomes :
       LET r == preq[p] IN
       /\ Counted(ok)
       /\ IF ok
          THEN /\ people' = Remove(people, r.id)
               /\ PersonStep(p, [r EXCEPT !.pc = "done", !.status = 200])
          ELSE /\ PersonStep(p, PersonReject(r, 500))
               /\ UNCHANGED people
  /\ UNCHANGED <<personNextId, memPeople, memVars, moodVars, conc, ops, nudgeVars>>

PersonFinish(p) ==
  /\ preq[p].pc = "done"
  /\ PersonStep(p, IdlePersonReq)
  /\ UNCHANGED <<people, personNextId, memPeople, memVars, moodVars, conc, ops, fails, nudgeVars>>

\* POST /memories as the people column sees it: a row of the caller with the
\* people array of the body.
CreateMemoryWithPeople ==
  /\ \A p \in Procs : preq[p].pc = "idle" \/ conc
  /\ Len(memPeople) < MaxRefMem
  /\ \E u \in Users, ps \in PeopleLists :
       memPeople' = Append(memPeople, [userId |-> u, people |-> ps])
  /\ UNCHANGED <<people, personNextId, preq, memVars, moodVars, conc, ops, fails, nudgeVars>>

NextPeople ==
  \/ \E p \in Procs :
       \/ PersonCreateList(p)
       \/ PersonCreateInsert(p)
       \/ PersonUpdateGet(p)
       \/ PersonUpdateList(p)
       \/ PersonUpdateWrite(p)
       \/ PersonDeleteGet(p)
       \/ PersonDeleteCount(p)
       \/ PersonDeleteWrite(p)
       \/ PersonFinish(p)
  \/ CreateMemoryWithPeople

SpecPeople == Init /\ [][NextPeople]_vars

\* ------------------------------------------- interleaved POST /people
\* Empty tables, and requests that are served while another waits at an await.
InitCreatePerson ==
  /\ store = <<>>
  /\ index = <<>>
  /\ nextId = 1
  /\ req = [p \in Procs |-> IdleReq]
  /\ conc = TRUE
  /\ ops = 0
  /\ fails = 0
  /\ deleted = {}
  /\ returned = {}
  /\ snapStore = <<>>
  /\ snapIndex = <<>>
  /\ AuxInit

NextCreatePerson ==
  \E p \in Procs :
    \/ PersonCreateList(p)
    \/ PersonCreateInsert(p)
    \/ PersonFinish(p)

SpecCreatePerson == InitCreatePerson /\ [][NextCreatePerson]_vars


\* --------------------------------------------------------- /nudges routes
MaxNudges == 1

NudgeIds == 1..MaxNudges

\* expiresAt of a nudge against the clock: not set, still ahead, or reached
Expiries == {"none", "future", "past"}

\* the isRead and isActioned parameters of GET /nudges
FlagFilters == {"true", "false", Undef}

Answer(op, user, id, status) ==
  [op |-> op, user |-> user, id |-> id, status |-> status, data |-> {}]

\* getRecordById with the 404 and 403 checks the handlers share: 0 when the
\* caller may go on.
NudgeAccess(user, id) ==
  IF id \notin DOMAIN nudges THEN 404
  ELSE IF nudges[id].userId # user THEN 403
  ELSE 0

\* POST /nudges: the row starts unread and not actioned.
NudgeCreate ==
  /\ nudgeNextId <= MaxNudges
  /\ \E u \in Users, e \in Expiries, ok \in BOOLEAN :
       IF ok
       THEN /\ nudges' = Put(nudges, nudgeNextId,
                             [id |-> nudgeNextId, userId |-> u, isRead |-> FALSE,
                              isActioned |-> FALSE, expiry |-> e])
            /\ nudgeNextId' = nudgeNextId + 1
            /\ nlast' = Answer("create", u, nudgeNextId, 201)
       ELSE /\ nlast' = Answer("create", u, 0, 500)
            /\ UNCHANGED <<nudges, nudgeNextId>>
  /\ UNCHANGED <<gen, memVars, moodVars, peopleVars, conc, ops, fails>>

\* listRecords('nudges', filters): every filter present is an equality.
ListNudges(user, isRead, isActioned) ==
  {id \in DOMAIN nudges :
     /\ nudges[id].userId = user
     /\ isRead # Undef => nudges[id].isRead = (isRead = "true")
     /\ isActioned # Undef => nudges[id].isActioned = (isActioned = "true")}

\* GET /nudges: the rows of the caller that match the filters and are not
\* expired.
NudgeList ==
  /\ \E u \in Users, isRead \in FlagFilters, isActioned \in FlagFilters,
        ok \in BOOLEAN :
       nlast' = IF ok
                THEN [Answer("list", u, 0, 200) EXCEPT !.data =
                        {id \in ListNudges(u, isRead, isActioned) :
                           nudges[id].expiry # "past"}]
                ELSE Answer("list", u, 0, 500)
  /\ UNCHANGED <<nudges, nudgeNextId, gen, memVars, moodVars, peopleVars, conc,
                 ops, fails>>

\* GET /nudges/:id.
NudgeGet ==
  /\ \E u \in Users, id \in NudgeIds, ok \in BOOLEAN :
       nlast' = IF ~ok THEN Answer("get", u, id, 500)
                ELSE IF NudgeAccess(u, id) # 0 THEN Answer("get", u, id, NudgeAccess(u, id))
                ELSE IF nudges[id].expiry = "past" THEN Answer("get", u, id, 410)
                ELSE [Answer("get", u, id, 200) EXCEPT !.data = {id}]
  /\ UNCHANGED <<nudges, nudgeNextId, gen, memVars, moodVars, peopleVars, conc,
                 ops, fails>>

\* updateRecord('nudges', id, {isRead: true}) that writes the opposite of
\* the stored flag.
MarkedReadToggled(row) == [row EXCEPT !.isRead = ~@]

\* updateRecord('nudges', id, {isRead: true, updatedAt}).
MarkedRead(row) == [row EXCEPT !.isRead = TRUE]

\* updateRecord('nudges', id, {isActioned: true, updatedAt}).
MarkedActioned(row) == [row EXCEPT !.isActioned = TRUE]

\* PATCH /nudges/:id/read.
NudgeMarkRead ==
  /\ \E u \in Users, id \in NudgeIds, ok \in BOOLEAN :
       IF ok /\ NudgeAccess(u, id) = 0
       THEN /\ nudges' = [nudges EXCEPT ![id] = MarkedRead(@)]
            /\ nlast' = Answer("read", u, id, 200)
       ELSE /\ nlast' = Answer("read", u, id, IF ok THEN NudgeAccess(u, id) ELSE 500)
            /\ UNCHANGED nudges
  /\ UNCHANGED <<nudgeNextId, gen, memVars, moodVars, peopleVars, conc, ops, fails>>

\* PATCH /nudges/:id/action.
NudgeMarkAction ==
  /\ \E u \in Users, id \in NudgeIds, ok \in BOOLEAN :
       IF ok /\ NudgeAccess(u, id) = 0
       THEN /\ nudges' = [nudges EXCEPT ![id] = MarkedActioned(@)]
            /\ nlast' = Answer("action", u, id, 200)
       ELSE /\ nlast' = Answer("action", u, id, IF ok THEN NudgeAccess(u, id) ELSE 500)
            /\ UNCHANGED nudges
  /\ UNCHANGED <<nudgeNextId, gen, memVars, moodVars, peopleVars, conc, ops, fails>>

\* PATCH /nudges/mark-all-read: the unread rows of the caller are listed and
\* updated one by one under Promise.all; the answer is 200 when every update
\* succeeded, and the updates that succeeded stay when another one threw.
NudgeMarkAllRead ==
  /\ \E u \in Users, ok \in BOOLEAN :
       LET unreadNudges == ListNudges(u, "false", Undef) IN
       IF ~ok
       THEN /\ nlast' = Answer("mark-all-read", u, 0, 500)
            /\ UNCHANGED nudges
       ELSE \E updated \in SUBSET unreadNudges :
              /\ nudges' = [id \in DOMAIN nudges |->
                              IF id \in updated THEN MarkedRead(nudges[id])
                              ELSE nudges[id]]
              /\ nlast' = [Answer("mark-all-read", u, 0,
                                  IF updated = unreadNudges THEN 200 ELSE 500)
                             EXCEPT !.data = updated]
  /\ UNCHANGED <<nudgeNextId, gen, memVars, moodVars, peopleVars, conc, ops, fails>>

\* DELETE /nudges/:id.
NudgeDelete ==
  /\ \E u \in Users, id \in NudgeIds, ok \in BOOLEAN :
       IF ok /\ NudgeAccess(u, id) = 0
       THEN /\ nudges' = Remove(nudges, id)
            /\ nlast' = Answer("delete", u, id, 200)
       ELSE /\ nlast' = Answer("delete", u, id, IF ok THEN NudgeAccess(u, id) ELSE 500)
            /\ UNCHANGED nudges
  /\ UNCHANGED <<nudgeNextId, gen, memVars, moodVars, peopleVars, conc, ops, fails>>

\* DELETE /nudges/cleanup/expired: the expired rows of the caller are deleted
\* one by one under Promise.all.
NudgeCleanup ==
  /\ \E u \in Users, ok \in BOOLEAN :
       LET expiredNudges == {id \in ListNudges(u, Undef, Undef) :
                               nudges[id].expiry = "past"} IN
       IF ~ok
       THEN /\ nlast' = Answer("cleanup", u, 0, 500)
            /\ UNCHANGED nudges
       ELSE \E removed \in SUBSET expiredNudges :
              /\ nudges' = [id \in DOMAIN nudges \ removed |-> nudges[id]]
              /\ nlast' = [Answer("cleanup", u, 0,
                                  IF removed = expiredNudges THEN 200 ELSE 500)
                             EXCEPT !.data = removed]
  /\ UNCHANGED <<nudgeNextId, gen, memVars, moodVars, peopleVars, conc, ops, fails>>

\* The clock reaches the expiresAt of a nudge.
NudgeExpires ==
  /\ \E id \in DOMAIN nudges :
       /\ nudges[id].expiry = "future"
       /\ nudges' = [nudges EXCEPT ![id].expiry = "past"]
  /\ nlast' = NoAnswer
  /\ UNCHANGED <<nudgeNextId, gen, memVars, moodVars, peopleVars, conc, ops, fails>>

NextNudges ==
  \/ NudgeCreate
  \/ NudgeList
  \/ NudgeGet
  \/ NudgeMarkRead
  \/ NudgeMarkAction
  \/ NudgeMarkAllRead
  \/ NudgeDelete
  \/ NudgeCleanup
  \/ NudgeExpires

SpecNudges == Init /\ [][NextNudges]_vars

\* --------------------------------------------- POST /ai/nudges (generation)
MaxCandidates == 2

NudgeTypes == {"reconnect", "log_memory", "emotional_gap", "person_reminder"}

Priorities == {"low", "medium", "high"}

\* What the model can put into the nudges array: a field may be missing and
\* type and priority may be any string.
Candidates ==
  [type : {"reconnect", "bogus", Undef}, title : {"t", Undef}, message : {"m"},
   priority : {"low", "urgent"}]

CandidateLists == UNION {[1..n -> Candidates] : n \in 0..MaxCandidates}

\* generateNudges that answers with an empty list where it has nothing.
generateNudgesOrEmpty(thrown, content, hasNudges, candidates) ==
  IF thrown \/ content # "json"
  THEN [ok |-> TRUE, nudges |-> <<>>]
  ELSE [ok |-> TRUE, nudges |-> IF hasNudges THEN candidates ELSE <<>>]

\* generateNudges from the chat completion on: a throw of the call, no
\* content and content that JSON.parse refuses all end in the catch, which
\* throws; otherwise the result is result.nudges || [].
generateNudges(thrown, content, hasNudges, candidates) ==
  IF thrown \/ content # "json"
  THEN [ok |-> FALSE, nudges |-> <<>>]
  ELSE [ok |-> TRUE, nudges |-> IF hasNudges THEN candidates ELSE <<>>]

\* The request arrives; the two selects of the context answer (their error
\* objects are not looked at).
GenStart ==
  /\ gen.pc = "idle"
  /\ gen' = [IdleGen EXCEPT !.pc = "llm"]
  /\ UNCHANGED <<nudges, nudgeNextId, nlast, memVars, moodVars, peopleVars, conc,
                 ops, fails>>

\* The chat completion answers or throws, and the route sends the nudges or
\* 500.
GenComplete ==
  /\ gen.pc = "llm"
  /\ \E thrown \in BOOLEAN, content \in {"json", "none", "garbage"},
        hasNudges \in BOOLEAN, candidates \in CandidateLists :
       LET result == generateNudges(thrown, content, hasNudges, candidates) IN
       /\ thrown => content = "none"
       /\ (content # "json" \/ ~hasNudges) => candidates = <<>>
       /\ content # "json" => ~hasNudges
       /\ gen' = [pc |-> "done", thrown |-> thrown, content |-> content,
                  hasNudges |-> hasNudges, candidates |-> candidates,
                  status |-> IF result.ok THEN 200 ELSE 500,
                  nudges |-> result.nudges]
  /\ UNCHANGED <<nudges, nudgeNextId, nlast, memVars, moodVars, peopleVars, conc,
                 ops, fails>>

GenFinish ==
  /\ gen.pc = "done"
  /\ gen' = IdleGen
  /\ UNCHANGED <<nudges, nudgeNextId, nlast, memVars, moodVars, peopleVars, conc,
                 ops, fails>>

NextGen ==
  \/ GenStart
  \/ GenComplete
  \/ GenFinish

SpecGen == Init /\ [][NextGen]_vars

\* ================================================================ claims
Writes == {"create", "update"}

DbWrites == {"db.insert", "db.update"}

IndexWrites == {"index.delete", "index.add"}

\* the position of a write-path stage in the order summarize, embed,
\* Relational Store write, Vector Index write (0: not one of the four)
StageRank(c) ==
  CASE c = "summarize" -> 1
    [] c = "embed" -> 2
    [] c \in DbWrites -> 3
    [] c \in IndexWrites -> 4
    [] OTHER -> 0

\* the request regenerates the derived fields: a create, or an update whose
\* body carries content or audio
ContentChanging(r) ==
  \/ r.op = "create"
  \/ r.op = "update" /\ r.existing # NoRec /\ (r.body.content # Undef \/ r.body.audio)

\* C1: every persisted Memory carries the summary and the embedding computed
\* from its current content text.
C1_NoStalePairs ==
  \A id \in DOMAIN store :
    /\ store[id].summary = SummaryOf(store[id].content)
    /\ store[id].embedding = EmbeddingOf(store[id].content)

\* an update that changed the content text has been answered 200
C1_Witness ==
  \E p \in Procs :
    /\ req[p].op = "update" /\ req[p].pc = "done" /\ req[p].status = 200
    /\ req[p].id \in DOMAIN store
    /\ store[req[p].id].content # req[p].existing.content

\* C2: a query of user A holds, at every stage, only index entries scoped to A
\* and only Memory records owned by A.
C2_NoCrossUserResults ==
  \A p \in Procs :
    req[p].op = "query" =>
      /\ \A i \in DOMAIN req[p].similar : req[p].similar[i].userId = req[p].user
      /\ \A i \in DOMAIN req[p].memories : req[p].memories[i].userId = req[p].user

\* a query was answered after its search had returned an id whose Memory
\* record another user owns
C2_Witness ==
  \E p \in Procs :
    /\ req[p].op = "query" /\ req[p].pc = "done" /\ req[p].status = 200
    /\ \E i \in DOMAIN req[p].similar :
         /\ req[p].similar[i].memoryId \in DOMAIN store
         /\ store[req[p].similar[i].memoryId].userId # req[p].user

\* C3: the write path calls summarize, embed, the Relational Store write and
\* the Vector Index write in this order, each after the one before it, and a
\* call that throws ends the request with a failure: nothing is called after
\* it, and when it is the summarize or the embed call neither store has
\* changed.
C3_WritePathOrder ==
  \A p \in Procs :
    LET r == req[p]
        c == r.calls
    IN (r.op \in Writes /\ ContentChanging(r)) =>
         /\ \A i, j \in DOMAIN c :
              (i < j /\ StageRank(c[i]) > 0 /\ StageRank(c[j]) > 0)
                 => StageRank(c[i]) <= StageRank(c[j])
         /\ \A j \in DOMAIN c :
              StageRank(c[j]) > 1 =>
                \A k \in 1..(StageRank(c[j]) - 1) :
                  \E i \in 1..(j - 1) : StageRank(c[i]) = k
         /\ r.failed # Undef =>
              /\ r.pc = "done" /\ r.status = 500
              /\ c[Len(c)] = r.failed
              /\ StageRank(r.failed) <= 3 => (store = snapStore /\ index = snapIndex)

\* the embedding call of a content-changing update threw after its
\* summarization had succeeded
C3_Witness ==
  \E p \in Procs :
    /\ req[p].op = "update" /\ req[p].failed = "embed"
    /\ req[p].summary = SummaryOf(req[p].processedContent)
    /\ req[p].summary # req[p].existing.summary

\* C4: when a create is answered 201 the index holds the entry of the new id,
\* scoped to the creator, with the text, summary and embedding of the
\* persisted record.
C4_CreateIndexed ==
  \A p \in Procs :
    (req[p].op = "create" /\ req[p].pc = "done" /\ req[p].status = 201) =>
      LET id == req[p].id IN
      /\ id \in DOMAIN store
      /\ id \in DOMAIN index
      /\ store[id].userId = req[p].user
      /\ index[id].userId = req[p].user
      /\ index[id].text = store[id].content
      /\ index[id].summary = store[id].summary
      /\ index[id].embedding = store[id].embedding

\* a create with a voice attachment has been answered 201
C4_Witness ==
  \E p \in Procs :
    /\ req[p].op = "create" /\ req[p].pc = "done" /\ req[p].status = 201
    /\ req[p].body.audio

\* C5: when an update is answered 200 the index holds the entry of that id,
\* carrying the owning user id of the Memory and the text, summary and
\* embedding of the updated record.
C5_UpdateIndexed ==
  \A p \in Procs :
    (req[p].op = "update" /\ req[p].pc = "done" /\ req[p].status = 200) =>
      LET id == req[p].id IN
      /\ id \in DOMAIN store
      /\ id \in DOMAIN index
      /\ index[id].userId = store[id].userId
      /\ index[id].text = store[id].content
      /\ index[id].summary = store[id].summary
      /\ index[id].embedding = store[id].embedding

\* C6: an id whose delete was answered 200 is in neither store, and no query
\* in flight or answered holds a Memory of that id.
C6_DeletedStaysGone ==
  \A id \in deleted :
    /\ id \notin DOMAIN store
    /\ id \notin DOMAIN index
    /\ \A p \in Procs :
         req[p].op = "query" =>
           \A i \in DOMAIN req[p].memories : req[p].memories[i].id # id

\* a Memory that a query had returned was deleted, and a query made after
\* the delete has been answered with nothing
C6_Witness ==
  \E id \in deleted \cap returned :
    \E p \in Procs :
      /\ req[p].op = "query" /\ req[p].pc = "done" /\ req[p].status = 200
      /\ req[p].memories = <<>>
      /\ req[p].similar = <<>>

\* C7: no entry a search returns is less similar to the query than the floor,
\* similarity being 1 - distance (higher is closer).
C7_AboveFloor ==
  \A p \in Procs :
    req[p].op = "query" =>
      \A i \in DOMAIN req[p].similar :
        LET id == req[p].similar[i].memoryId IN
        id \in DOMAIN index =>
          100 - Distance(req[p].embedding, index[id].embedding) >= QueryThreshold

\* C8: a search returns at most limit entries (10 when the request names no
\* limit), the closest first, and the query returns no more memories than that.
C8_CappedAndRanked ==
  \A p \in Procs :
    req[p].op = "query" =>
      LET r == req[p]
          cap == IF r.limit = 0 THEN DefaultLimit ELSE r.limit
          d(i) == Distance(r.embedding, index[r.similar[i].memoryId].embedding)
      IN /\ Len(r.similar) <= cap
         /\ Len(r.memories) <= cap
         /\ \A i, j \in DOMAIN r.similar :
              (i < j /\ r.similar[i].memoryId \in DOMAIN index
                     /\ r.similar[j].memoryId \in DOMAIN index)
                 => 100 - d(i) >= 100 - d(j)

\* a query with limit 1 was answered with one memory while the index held two
\* entries of the user that pass the filter
C8_Witness ==
  \E p \in Procs :
    /\ req[p].op = "query" /\ req[p].pc = "done" /\ req[p].status = 200
    /\ req[p].limit = 1
    /\ Len(req[p].memories) = 1
    /\ Cardinality({id \in DOMAIN index :
                      /\ index[id].userId = req[p].user
                      /\ Distance(req[p].embedding, index[id].embedding) >= QueryThreshold}) >= 2

\* the place of an id in the search result
Pos(similar, id) == CHOOSE k \in DOMAIN similar : similar[k].memoryId = id

\* C9: the memories of an answered query are in the order of the search result.
C9_RankingPreserved ==
  \A p \in Procs :
    (req[p].op = "query" /\ req[p].pc = "done" /\ req[p].status = 200) =>
      \A i, j \in DOMAIN req[p].memories :
        i < j => Pos(req[p].similar, req[p].memories[i].id)
                   < Pos(req[p].similar, req[p].memories[j].id)

\* C10: a search that returns nothing ends the query at once with the empty
\* response: status 200, no memories, confidence 0, the fixed explanation, and
\* no call after the search.
C10_EmptyResult ==
  \A p \in Procs :
    req[p].op = "query" =>
      /\ req[p].pc \in {"hydrate", "explain"} => req[p].similar # <<>>
      /\ "hydrate" \in Range(req[p].calls) => req[p].similar # <<>>
      /\ (req[p].pc = "done" /\ req[p].failed = Undef /\ req[p].similar = <<>>) =>
           /\ req[p].status = 200
           /\ req[p].memories = <<>>
           /\ req[p].confidence = 0
           /\ req[p].explanation = NoResultsExplanation
           /\ req[p].calls = <<"embed", "search">>

\* a query was answered with the empty response although the index holds an
\* entry of the user
C10_Witness ==
  \E p \in Procs :
    /\ req[p].op = "query" /\ req[p].pc = "done" /\ req[p].status = 200
    /\ req[p].similar = <<>>
    /\ req[p].explanation = NoResultsExplanation
    /\ \E id \in DOMAIN index : index[id].userId = req[p].user

\* the ids of a sequence of rows
IdsOf(rows) == {rows[i].id : i \in DOMAIN rows}

\* the ids of a search result
SimilarIds(similar) == {similar[i].memoryId : i \in DOMAIN similar}

\* C11: the confidence of an answered query is the similarity score of the
\* first memory of the returned list, and 0 when the returned list is empty,
\* also when hydration dropped every id.
C11_ConfidenceOfFirst ==
  \A p \in Procs :
    (req[p].op = "query" /\ req[p].pc = "done" /\ req[p].status = 200) =>
      IF req[p].memories = <<>>
      THEN req[p].confidence = 0
      ELSE req[p].confidence =
             req[p].similar[Pos(req[p].similar, req[p].memories[1].id)].similarity

\* C12: a search result naming an id without a Memory record does not fail the
\* query: hydration goes on to the explanation with exactly the returned ids
\* that exist in the store and belong to the requesting user, each once.
C12_HydrationDropsMissing ==
  \A p \in Procs :
    (req[p].op = "query" /\ "hydrate" \in Range(req[p].calls)
       /\ req[p].failed # "hydrate") =>
      /\ req[p].pc \in {"explain", "done"}
      /\ IdsOf(req[p].memories) =
           {id \in SimilarIds(req[p].similar) \cap DOMAIN store :
              store[id].userId = req[p].user}
      /\ Cardinality(IdsOf(req[p].memories)) = Len(req[p].memories)

\* a query was answered 200 after its search returned an id that has no
\* Memory record
C12_Witness ==
  \E p \in Procs :
    /\ req[p].op = "query" /\ req[p].pc = "done" /\ req[p].status = 200
    /\ \E id \in SimilarIds(req[p].similar) : id \notin DOMAIN store

\* C13: a query whose explanation call failed after embed, search and
\* hydration succeeded is still answered successfully, with the hydrated
\* memories and a fixed explanation.
C13_ExplainFailureTolerated ==
  \A p \in Procs :
    (req[p].op = "query" /\ req[p].pc = "done"
       /\ "explain" \in Range(req[p].calls)) =>
      /\ req[p].status = 200
      /\ req[p].explanation \in {FallbackExplanation, LLMExplanation}

\* the stages of a query, in order
QueryStages == <<"embed", "search", "hydrate", "explain">>

IsPrefix(s, t) == Len(s) <= Len(t) /\ \A i \in DOMAIN s : s[i] = t[i]

\* C14: a query calls embed, search, hydrate, explain in this order, each at
\* most once and only after the one before succeeded; a failure of embed,
\* search or hydrate ends the query with status 500, never with a success or
\* the empty response, and no later stage is called.
C14_QueryStagesInOrder ==
  \A p \in Procs :
    req[p].op = "query" =>
      /\ IsPrefix(req[p].calls, QueryStages)
      /\ req[p].failed # Undef => req[p].failed = req[p].calls[Len(req[p].calls)]
      /\ req[p].failed \in {"embed", "search", "hydrate"} =>
           /\ req[p].pc = "done"
           /\ req[p].status = 500
           /\ req[p].explanation = Undef

\* a query ended with status 500 because its hydration failed
C14_Witness ==
  \E p \in Procs :
    /\ req[p].op = "query" /\ req[p].pc = "done" /\ req[p].status = 500
    /\ req[p].failed = "hydrate"
    /\ req[p].calls = <<"embed", "search", "hydrate">>

C17_NoRegenerationWithoutChange ==
  \A p \in Procs :
    (req[p].op = "update" /\ req[p].existing # NoRec
       /\ req[p].processedContent = req[p].existing.content) =>
      /\ "summarize" \notin Range(req[p].calls)
      /\ "embed" \notin Range(req[p].calls)
      /\ (req[p].pc = "done" /\ req[p].status = 200 /\ req[p].id \in DOMAIN store) =>
           /\ store[req[p].id].summary = req[p].existing.summary
           /\ store[req[p].id].embedding = req[p].existing.embedding

\* C18: no step changes the id or the owning user of an existing Memory.
C18_IdentityImmutable ==
  [][\A id \in DOMAIN store \cap DOMAIN store' :
       /\ store'[id].id = store[id].id
       /\ store'[id].userId = store[id].userId]_vars

\* C15: a payload of the summarization model without mood, or with a mood
\* outside the integers 1..10, makes summarizeMemory fail, so the create or
\* update persists nothing; every persisted Memory has a mood in 1..10.
C15_MoodValidated ==
  /\ \A id \in DOMAIN moodStore : MoodCheck(moodStore[id])
  /\ (sumReq.summarized /\ ~MoodCheck(sumReq.payload.mood)) =>
       /\ sumReq.pc = "done"
       /\ sumReq.status = 500
       /\ sumReq.failed = "summarize"

\* a Memory of the person's user has the person's id in its people array
Referenced(id) ==
  \E m \in DOMAIN memPeople :
    /\ memPeople[m].userId = people[id].userId
    /\ id \in Range(memPeople[m].people)

\* C19: a Person referenced by a Memory of the same user, alone or together
\* with other people, is never removed: no step deletes a referenced Person.
C19_ReferencedPersonKept ==
  [][\A id \in DOMAIN people : Referenced(id) => id \in DOMAIN people']_vars

\* C20: no two Person records of one user have names that are equal ignoring
\* case.
C20_NamesUniquePerUser ==
  \A i, j \in DOMAIN people :
    (i # j /\ people[i].userId = people[j].userId) =>
      LowerCase(people[i].name) # LowerCase(people[j].name)

\* C21: once the read flag or the actioned flag of a Nudge is true, no step
\* sets it back to false.
C21_FlagsMonotonic ==
  [][\A id \in DOMAIN nudges \cap DOMAIN nudges' :
       /\ nudges[id].isRead => nudges'[id].isRead
       /\ nudges[id].isActioned => nudges'[id].isActioned]_vars

\* a nudge that was read and actioned is marked read again and is still both
C21_Witness ==
  /\ nlast.op = "read" /\ nlast.status = 200
  /\ nlast.id \in DOMAIN nudges
  /\ nudges[nlast.id].isRead /\ nudges[nlast.id].isActioned

\* the candidate has the required fields, a known type and a known priority
ValidNudge(c) ==
  /\ c.type \in NudgeTypes
  /\ c.title # Undef
  /\ c.message # Undef
  /\ c.priority \in Priorities

\* C22: every nudge that generateNudges returns has type, title, message and
\* priority, a type of the four kinds and a priority of the three levels;
\* the candidates of the payload that do not are dropped.
C22_OnlyValidNudges ==
  (gen.pc = "done" /\ gen.status = 200) =>
    /\ \A i \in DOMAIN gen.nudges : ValidNudge(gen.nudges[i])
    /\ gen.nudges = SelectSeq(gen.candidates, ValidNudge)

\* C23: when the completion call of generateNudges throws or answers without
\* content, the generation fails as a whole: the caller gets an error and no
\* nudge list, not even an empty one.
C23_GenerationFailsWhole ==
  (gen.pc = "done" /\ (gen.thrown \/ gen.content = "none")) =>
    /\ gen.status = 500
    /\ gen.nudges = <<>>

\* the completion answered without content and the route answered 500
C23_Witness ==
  /\ gen.pc = "done" /\ ~gen.thrown /\ gen.content = "none"
  /\ gen.status = 500

\* C24: the error a failed query reports names the stage that failed: it is
\* not the raw upstream text and it differs from the error reported for a
\* failure of any other of the stages embed, search and hydrate.
C24_StageReported ==
  \A p \in Procs :
    (req[p].op = "query" /\ req[p].pc = "done"
       /\ req[p].failed \in {"embed", "search", "hydrate"}) =>
      LET sent == RouteError(ThrownMessage(req[p].failed)) IN
      /\ sent # ThrownMessage(req[p].failed)
      /\ \A stage \in {"embed", "search", "hydrate"} \ {req[p].failed} :
           RouteError(ThrownMessage(stage)) # sent

\* C27: a create whose Vector Index insert failed after the Relational Store
\* insert succeeded is answered 500, and nothing is taken back: the record
\* stays in the store and the index has no entry of its id.
C27_NoCompensation ==
  \A p \in Procs :
    (req[p].op = "create" /\ req[p].failed = "index.add") =>
      /\ req[p].pc = "done"
      /\ req[p].status = 500
      /\ req[p].id \in DOMAIN store
      /\ req[p].id \notin DOMAIN index

\* a create was answered 500 after its index add failed
C27_Witness ==
  \E p \in Procs :
    /\ req[p].op = "create" /\ req[p].pc = "done" /\ req[p].status = 500
    /\ req[p].calls[Len(req[p].calls)] = "index.add"
    /\ req[p].id \in DOMAIN store

\* C29: an update or delete of a Memory of another user is answered 403, one
\* of an id without a record 404; both change neither store and make no call
\* after the lookup, and only the owner's request gets past the lookup.
C29_ForeignAndMissingRejected ==
  \A p \in Procs :
    (req[p].op \in {"update", "delete"} /\ req[p].failed # "db.get") =>
      /\ req[p].status \in {403, 404} =>
           /\ req[p].calls = <<"db.get">>
           /\ store = snapStore
           /\ index = snapIndex
      /\ req[p].status = 403 <=>
           (req[p].id \in DOMAIN snapStore /\ snapStore[req[p].id].userId # req[p].user)
      /\ req[p].status = 404 <=> req[p].id \notin DOMAIN snapStore

\* an update of a Memory of another user was answered 403
C29_Witness ==
  \E p \in Procs :
    /\ req[p].op = "update" /\ req[p].pc = "done" /\ req[p].status = 403
    /\ req[p].id \in DOMAIN store
    /\ store[req[p].id].userId # req[p].user

\* two updates of Memory id that have both been answered 200 and not yet left
BothUpdated(p, q, id) ==
  /\ p # q
  /\ req[p].op = "update" /\ req[p].pc = "done" /\ req[p].status = 200 /\ req[p].id = id
  /\ req[q].op = "update" /\ req[q].pc = "done" /\ req[q].status = 200 /\ req[q].id = id

\* C25: once two interleaved updates of one Memory have both succeeded, the
\* Vector Index entry of the Memory holds the text, summary and embedding of
\* the record in the Relational Store.
C25_StoresAgreeAfterUpdates ==
  \A p, q \in Procs, id \in MemIds :
    BothUpdated(p, q, id) =>
      /\ id \in DOMAIN store
      /\ id \in DOMAIN index
      /\ index[id].text = store[id].content
      /\ index[id].summary = store[id].summary
      /\ index[id].embedding = store[id].embedding

\* the patch carries neither content nor audio
NoContentPatch(b) == b.content = Undef /\ ~b.audio

\* C26: when an update without content and without audio interleaves with an
\* update that changes the content of the same Memory and both succeed, the
\* record holds the content, summary and embedding the content-changing
\* update wrote.
C26_NoContentUpdateKeepsContent ==
  \A p, q \in Procs, id \in MemIds :
    (BothUpdated(p, q, id) /\ NoContentPatch(req[p].body) /\ ~NoContentPatch(req[q].body)) =>
      /\ id \in DOMAIN store
      /\ store[id].content = req[q].processedContent
      /\ store[id].summary = req[q].summary
      /\ store[id].embedding = req[q].embedding

\* C28: the replacement of an index entry is a delete followed by an insert.
\* Between the two the id has no entry; when the insert fails the id stays
\* without an entry while the store holds the updated record; and an update
\* that succeeds leaves the one entry it inserted, whether or not the id had
\* an entry before.
C28_DeleteThenInsert ==
  \A p \in Procs :
    req[p].op = "update" =>
      /\ req[p].pc = "indexwrite" => req[p].id \notin DOMAIN index
      /\ (req[p].pc = "done" /\ req[p].failed = "index.add") =>
           /\ req[p].id \notin DOMAIN index
           /\ req[p].id \in DOMAIN store
           /\ store[req[p].id].content = req[p].processedContent
           /\ store[req[p].id].summary = req[p].summary
           /\ store[req[p].id].embedding = req[p].embedding
      /\ (req[p].pc = "done" /\ req[p].status = 200) =>
           /\ req[p].id \in DOMAIN index
           /\ index[req[p].id] =
                IndexEntry(Undef, req[p].processedContent, req[p].summary, req[p].embedding,
                           OrElse(req[p].body.title, req[p].existing.title))

\* an update succeeded on an id the index had lost to an earlier failed insert
C28_Witness ==
  \E p \in Procs :
    /\ req[p].op = "update" /\ req[p].pc = "done" /\ req[p].status = 200
    /\ fails > 0
    /\ req[p].id \in DOMAIN snapStore
    /\ req[p].id \notin DOMAIN snapIndex
    /\ req[p].id \in DOMAIN index

\* C30: of two create-person requests of one user in flight together whose
\* names are equal ignoring case, at most one is answered 201, and the user
\* never holds two Person records with names equal ignoring case.
C30_AtMostOneCreateSucceeds ==
  /\ \A p, q \in Procs :
       (/\ p # q
        /\ preq[p].op = "create" /\ preq[q].op = "create"
        /\ preq[p].user = preq[q].user
        /\ LowerCase(preq[p].name) = LowerCase(preq[q].name)) =>
         ~(preq[p].status = 201 /\ preq[q].status = 201)
  /\ \A i, j \in DOMAIN people :
       (i # j /\ people[i].userId = people[j].userId) =>
         LowerCase(people[i].name) # LowerCase(people[j].name)
====
